---- MODULE Spec2Model ----
(***************************************************************************)
(* A model of the proxy engine: the freshness cache of database.py (the    *)
(* proxy_cache table and the four Database methods that touch it) and the  *)
(* two validators, ProxyChecker (proxy_checker.py) and FastProxyChecker    *)
(* (proxy_checker_fast.py), the scraper (proxy_scraper.py), the step of    *)
(* bot.py that caches what a validation run found, and the task queue      *)
(* AsyncQueue of utils.py.                                                 *)
(*                                                                         *)
(* Time is counted in whole hours since 00:00 UTC of a reference date; the  *)
(* model starts two days after it, so that no cutoff precedes it.          *)
(* SQLite's CURRENT_TIMESTAMP and Python's datetime.isoformat() are both   *)
(* fixed-width, zero-padded texts, so a timestamp text is modelled as the  *)
(* triple <<date, code of the separator character, hour of day>> and text  *)
(* comparison as the lexicographic order of such triples.                  *)
(***************************************************************************)
EXTENDS Integers, Sequences, FiniteSets, TLC

VARIABLES
    \* ---- database.py ----
    cache,          \* the rows of table proxy_cache
    clock,          \* the current instant, hours (UTC)
    tz,             \* offset of the local clock from UTC, hours
    lastCall,       \* the Database call just made, its arguments and return value;
                    \* NoCall once the clock has advanced since
    \* ---- proxy_checker.py / proxy_checker_fast.py ----
    checker,        \* the class of the validator instance: "thorough" or "fast"
    progress_callback, \* TRUE when self.progress_callback is set
    results,        \* self.results: bucket name -> list of results
    checked_count,  \* self.checked_count
    working_count,  \* self.working_count
    total_count,    \* self.total_count
    FAST_MODE,      \* self.FAST_MODE
    real_ip,        \* self.real_ip ("" when detection failed)
    runpc,          \* where check_all stands: "idle", "loop", "gather", "returned", "raised"
    proxy_list,     \* list(proxies)
    batch_i,        \* the loop variable i of check_all, counted from 0
    semaphore,      \* free slots of the batch's asyncio.Semaphore
    tasks,          \* one _check_with_progress task per element of proxy_list
    returned,       \* the mapping the current check_all call returned
    \* ---- proxy_scraper.py ----
    web_sources,    \* self.web_sources: the list of source URLs
    scraped_proxies, \* self.scraped_proxies
    scraped_count,  \* self.scraped_count
    sources_completed, \* self.sources_completed
    max_proxies,    \* the argument of the scrape_all call in progress
    scrapepc,       \* where scrape_all stands: "idle", "loop", "gather", "finish", "returned"
    source_i,       \* how many sources the loop of scrape_all has taken
    fetches,        \* one _scrape_with_progress task per source: its state and response
    this_run,       \* the scrape_all call that returned last: sources, limit, the
                    \* sources that answered 200, and the set returned
    last_run,       \* the same of the call before it
    \* ---- utils.py: AsyncQueue ----
    queue,          \* self.queue: the coroutines put and not yet taken, oldest first
    max_concurrent, \* self.max_concurrent
    active_tasks,   \* self.active_tasks
    queuepc,        \* where process_queue stands: "idle", "loop", "returned"
    created,        \* the coroutines handed to asyncio.create_task that have not ended
    ended,          \* the coroutines that ended, and how
    turns           \* turns of the while loop that found no free slot, counted
                    \* modulo MaxTurns + 1

cacheVars == <<cache, clock, tz, lastCall>>
checkVars == <<checker, progress_callback, results, checked_count, working_count,
               total_count, FAST_MODE, real_ip, runpc, proxy_list, batch_i,
               semaphore, tasks, returned>>
scrapeVars == <<web_sources, scraped_proxies, scraped_count, sources_completed,
                max_proxies, scrapepc, source_i, fetches, this_run, last_run>>
queueVars == <<queue, max_concurrent, active_tasks, queuepc, created, ended, turns>>
vars == <<cache, clock, tz, lastCall, checker, progress_callback, results,
          checked_count, working_count, total_count, FAST_MODE, real_ip, runpc,
          proxy_list, batch_i, semaphore, tasks, returned, web_sources,
          scraped_proxies, scraped_count, sources_completed, max_proxies, scrapepc,
          source_i, fetches, this_run, last_run, queue, max_concurrent, active_tasks,
          queuepc, created, ended, turns>>

(***************************************************************************)
(* Bounds of the model.                                                    *)
(***************************************************************************)
MaxClock == 72          \* the clock stops advancing here
ClockStep == 8          \* hours between two instants at which calls are made
MaxChecks == 3          \* no row is checked more often than this
MaxLimit == 2           \* the largest max_proxies passed to scrape_all
GatherSize == 2         \* tasks collected before a gather: 10 in scrape_all
MaxQueued == 4          \* the coroutines ever put on an AsyncQueue
MaxConcurrent == 2      \* the largest max_concurrent an AsyncQueue is made with
MaxTurns == 2           \* the turns of process_queue's loop that are told apart

(***************************************************************************)
(* Texts.  A protocol name is the sequence of its characters, so that      *)
(* ','.join and LIKE '%..%' are computed on characters.                    *)
(***************************************************************************)
HoursPerDay == 24
SpaceCode == 32         \* ' ', the separator CURRENT_TIMESTAMP writes
TeeCode == 84           \* 'T', the separator datetime.isoformat() writes

Letters(p) ==
    CASE p = "http"   -> <<"h", "t", "t", "p">>
      [] p = "https"  -> <<"h", "t", "t", "p", "s">>
      [] p = "socks4" -> <<"s", "o", "c", "k", "s", "4">>
      [] p = "socks5" -> <<"s", "o", "c", "k", "s", "5">>
      [] OTHER        -> <<>>

RECURSIVE Join(_)
Join(protocols) ==
    IF protocols = <<>> THEN <<>>
    ELSE IF Len(protocols) = 1 THEN Letters(Head(protocols))
    ELSE Letters(Head(protocols)) \o <<",">> \o Join(Tail(protocols))

\* text LIKE '%pattern%': pattern occurs somewhere in text
Like(text, pattern) ==
    \E i \in 0..(Len(text) - Len(pattern)) :
        \A k \in 1..Len(pattern) : text[i + k] = pattern[k]

\* CURRENT_TIMESTAMP: 'YYYY-MM-DD HH:MM:SS' of the UTC instant t
CurrentTimestamp(t) == <<t \div HoursPerDay, SpaceCode, t % HoursPerDay>>

\* datetime.isoformat(): 'YYYY-MM-DDTHH:MM:SS' of the local wall-clock value t
IsoFormat(t) == <<t \div HoursPerDay, TeeCode, t % HoursPerDay>>

\* a < b as SQLite compares two TEXT values (BINARY collation)
TextLess(a, b) ==
    \/ a[1] < b[1]
    \/ a[1] = b[1] /\ a[2] < b[2]
    \/ a[1] = b[1] /\ a[2] = b[2] /\ a[3] < b[3]

\* datetime.now(): the local wall clock
LocalNow == clock + tz

(***************************************************************************)
(* The cache.                                                              *)
(***************************************************************************)
Ids == {"1.1.1.1:80", "2.2.2.2:80"}
TzOffsets == {-9, 0}
AgeHours == {8, 24}
AgeDays == {1}
NoArg == ""
\* the <<protocol, anonymity>> filters get_cached_proxies is called with
QueryFilters == {<<NoArg, NoArg>>, <<"http", NoArg>>, <<NoArg, "elite">>}

\* what a validation run hands to cache_working_proxy
CheckResults ==
    { [protocols |-> <<"https">>, anonymity |-> "elite", response_time |-> 2],
      [protocols |-> <<"http", "https">>, anonymity |-> "anonymous", response_time |-> 1] }

HasRow(proxy) == \E r \in cache : r.proxy = proxy
RowOf(proxy) == CHOOSE r \in cache : r.proxy = proxy

\* a Database call: the method, its arguments in order, what it returned, and what
\* became of an exception of the storage layer ("" when none was raised)
Call(op, args, ret) == [op |-> op, args |-> args, ret |-> ret, error |-> ""]
NoCall == Call("", <<>>, <<>>)

\* the row INSERT creates: the column defaults of the table
InsertedRow(proxy, r) ==
    [proxy |-> proxy, protocols |-> Join(r.protocols), anonymity |-> r.anonymity,
     response_time |-> r.response_time, last_checked |-> CurrentTimestamp(clock),
     check_count |-> 1, success_count |-> 1, is_working |-> TRUE]

\* a variant of UpdatedRow that leaves the protocols column as it was
UpdatedRow_KeepsProtocols(old, r) ==
    [old EXCEPT !.anonymity = r.anonymity,
                !.response_time = r.response_time,
                !.last_checked = CurrentTimestamp(clock),
                !.check_count = @ + 1,
                !.success_count = @ + 1,
                !.is_working = TRUE]

\* ON CONFLICT(proxy) DO UPDATE SET ...
UpdatedRow(old, r) ==
    [old EXCEPT !.protocols = Join(r.protocols),
                !.anonymity = r.anonymity,
                !.response_time = r.response_time,
                !.last_checked = CurrentTimestamp(clock),
                !.check_count = @ + 1,
                !.success_count = @ + 1,
                !.is_working = TRUE]

cache_working_proxy(proxy, r) ==
    /\ HasRow(proxy) => RowOf(proxy).check_count < MaxChecks
    /\ cache' = IF HasRow(proxy)
                THEN (cache \ {RowOf(proxy)}) \cup {UpdatedRow(RowOf(proxy), r)}
                ELSE cache \cup {InsertedRow(proxy, r)}
    /\ lastCall' = Call("cache_working_proxy",
                         <<proxy, r.protocols, r.anonymity, r.response_time>>, <<>>)
    /\ UNCHANGED <<clock, tz>>
    /\ UNCHANGED <<checkVars, scrapeVars, queueVars>>

\* a variant of DeadRow that counts the failed check as a success
DeadRow_CountsSuccess(old) ==
    [old EXCEPT !.is_working = FALSE,
                !.last_checked = CurrentTimestamp(clock),
                !.success_count = @ + 1]

\* a variant of DeadRow that also forgets the measured latency
DeadRow_ClearsLatency(old) ==
    [old EXCEPT !.is_working = FALSE,
                !.last_checked = CurrentTimestamp(clock),
                !.check_count = @ + 1,
                !.response_time = 0]

\* UPDATE proxy_cache SET ... WHERE proxy = ?
DeadRow(old) ==
    [old EXCEPT !.is_working = FALSE,
                !.last_checked = CurrentTimestamp(clock),
                !.check_count = @ + 1]

\* a variant of mark_proxy_dead that inserts a dead row for an unknown proxy
mark_proxy_dead_Inserts(proxy) ==
    /\ HasRow(proxy) => RowOf(proxy).check_count < MaxChecks
    /\ cache' = IF HasRow(proxy)
                THEN (cache \ {RowOf(proxy)}) \cup {DeadRow(RowOf(proxy))}
                ELSE cache \cup {[proxy |-> proxy, protocols |-> <<>>, anonymity |-> NoArg,
                                  response_time |-> 0,
                                  last_checked |-> CurrentTimestamp(clock),
                                  check_count |-> 1, success_count |-> 0,
                                  is_working |-> FALSE]}
    /\ lastCall' = Call("mark_proxy_dead", <<proxy>>, <<>>)
    /\ UNCHANGED <<clock, tz>>
    /\ UNCHANGED <<checkVars, scrapeVars, queueVars>>

\* a variant of mark_proxy_dead that drops the row instead of flagging it
mark_proxy_dead_Deletes(proxy) ==
    /\ HasRow(proxy) => RowOf(proxy).check_count < MaxChecks
    /\ cache' = {r \in cache : r.proxy # proxy}
    /\ lastCall' = Call("mark_proxy_dead", <<proxy>>, <<>>)
    /\ UNCHANGED <<clock, tz>>
    /\ UNCHANGED <<checkVars, scrapeVars, queueVars>>

mark_proxy_dead(proxy) ==
    /\ HasRow(proxy) => RowOf(proxy).check_count < MaxChecks
    /\ cache' = IF HasRow(proxy)
                THEN (cache \ {RowOf(proxy)}) \cup {DeadRow(RowOf(proxy))}
                ELSE cache
    /\ lastCall' = Call("mark_proxy_dead", <<proxy>>, <<>>)
    /\ UNCHANGED <<clock, tz>>
    /\ UNCHANGED <<checkVars, scrapeVars, queueVars>>

\* the statements of a write method at which the storage layer can raise
FailurePoints == {"execute", "commit"}

\* a write method whose statement raised: `except Exception` logs the error and the
\* method returns None
FailedCall(op, args) == [Call(op, args, <<>>) EXCEPT !.error = "logged"]

\* a variant of Rollback that leaves the writes of the open transaction in place
Rollback_Missing(written, at) == IF at = "commit" THEN written ELSE cache

\* conn.rollback() in the except branch: the table as it was at the last commit,
\* whatever the failed transaction had written (`written`, when commit raised)
Rollback(written, at) == cache

\* cache_working_proxy when cursor.execute or conn.commit raises
cache_working_proxy_fails(proxy, r, at) ==
    /\ HasRow(proxy) => RowOf(proxy).check_count < MaxChecks
    /\ cache' = Rollback(IF HasRow(proxy)
                          THEN (cache \ {RowOf(proxy)}) \cup {UpdatedRow(RowOf(proxy), r)}
                          ELSE cache \cup {InsertedRow(proxy, r)}, at)
    /\ lastCall' = FailedCall("cache_working_proxy",
                               <<proxy, r.protocols, r.anonymity, r.response_time>>)
    /\ UNCHANGED <<clock, tz>>
    /\ UNCHANGED <<checkVars, scrapeVars, queueVars>>

\* mark_proxy_dead when cursor.execute or conn.commit raises
mark_proxy_dead_fails(proxy, at) ==
    /\ HasRow(proxy) => RowOf(proxy).check_count < MaxChecks
    /\ cache' = Rollback(IF HasRow(proxy)
                          THEN (cache \ {RowOf(proxy)}) \cup {DeadRow(RowOf(proxy))}
                          ELSE cache, at)
    /\ lastCall' = FailedCall("mark_proxy_dead", <<proxy>>)
    /\ UNCHANGED <<clock, tz>>
    /\ UNCHANGED <<checkVars, scrapeVars, queueVars>>

\* the WHERE clause of get_cached_proxies
Selected(r, protocol, anonymity, max_age_hours) ==
    /\ r.is_working
    /\ TextLess(IsoFormat(LocalNow - max_age_hours), r.last_checked)
    /\ (protocol # NoArg => Like(r.protocols, Letters(protocol)))
    /\ (anonymity # NoArg => r.anonymity = anonymity)

RECURSIVE Orderings(_)
Orderings(S) ==
    IF S = {} THEN {<<>>}
    ELSE UNION {{<<x>> \o s : s \in Orderings(S \ {x})} : x \in S}

\* ORDER BY response_time ASC; rows with equal keys come in either order
OrderByResponseTime(S) ==
    {s \in Orderings(S) :
        \A i \in 1..(Len(s) - 1) : s[i].response_time <= s[i + 1].response_time}

get_cached_proxies(protocol, anonymity, max_age_hours) ==
    /\ \E rows \in OrderByResponseTime(
                      {r \in cache : Selected(r, protocol, anonymity, max_age_hours)}) :
           lastCall' = Call("get_cached_proxies",
                            <<protocol, anonymity, max_age_hours>>, rows)
    /\ UNCHANGED <<cache, clock, tz>>
    /\ UNCHANGED <<checkVars, scrapeVars, queueVars>>

\* DELETE FROM proxy_cache WHERE last_checked < ?
Stale(r, days) ==
    TextLess(r.last_checked, IsoFormat(LocalNow - days * HoursPerDay))

cleanup_old_cached_proxies(days) ==
    /\ cache' = {r \in cache : ~Stale(r, days)}
    /\ lastCall' = Call("cleanup_old_cached_proxies", <<days>>, <<>>)
    /\ UNCHANGED <<clock, tz>>
    /\ UNCHANGED <<checkVars, scrapeVars, queueVars>>

\* the passage of time between two calls
Tick ==
    /\ clock + ClockStep <= MaxClock
    /\ clock' = clock + ClockStep
    /\ lastCall' = NoCall
    /\ UNCHANGED <<cache, tz>>
    /\ UNCHANGED <<checkVars, scrapeVars, queueVars>>


(***************************************************************************)
(* The validators.  A proxy string is the sequence of its tokens:          *)
(* <<host, ":", port>> for a bare candidate and                            *)
(* <<scheme, "://", host, ":", port>> for a protocol-qualified one.        *)
(***************************************************************************)
BATCH_SIZE == 2             \* 500 in the source
MAX_CONCURRENT == 2         \* 500 in the source
FastProgressStep == 2       \* 50 in the source
ThoroughProgressStep == 2   \* 10 in the source
NoneTime == -1              \* response_time None, and a probe that returned None

\* the candidates handed to FastProxyChecker and to ProxyChecker
FastCandidates ==
    { <<"1.1.1.1", ":", "80">>,
      <<"2.2.2.2", ":", "80">>,
      <<"socks5", "://", "1.1.1.1", ":", "80">> }
\* the candidate sets checked with fast_mode = False
FullModeInputs == {S \in SUBSET FastCandidates : Cardinality(S) <= 1}
ThoroughCandidates ==
    { <<"1.1.1.1", ":", "80">>,
      <<"socks5", "://", "1.1.1.1", ":", "80">>,
      <<"socks4", "://", "2.2.2.2", ":", "80">> }

TesterIp == "9.9.9.9"

Buckets == {"http", "https", "socks4", "socks5",
            "elite", "anonymous", "transparent", "all_working"}

\* what one test request through a candidate comes back with
\* ip_in_body, ip_in_headers: the tester's address occurs in the body, in the value
\* of a header; proxy_word: one of the words of proxy_headers occurs in the value of a
\* header; proxy_header: a header is named Via, X-Forwarded-For, Forwarded or
\* Proxy-Connection
Timeout ==
    [kind |-> "timeout", status |-> 0, elapsed |-> 0,
     ip_in_body |-> FALSE, ip_in_headers |-> FALSE, proxy_word |-> FALSE,
     proxy_header |-> FALSE]
Response(status, elapsed, ip_in_body, ip_in_headers, proxy_word) ==
    [kind |-> "response", status |-> status, elapsed |-> elapsed,
     ip_in_body |-> ip_in_body, ip_in_headers |-> ip_in_headers,
     proxy_word |-> proxy_word, proxy_header |-> FALSE]
\* the same response with a header of one of those names added, e.g. "Via: 1.1 squid"
WithProxyHeader(resp) == [resp EXCEPT !.proxy_header = TRUE]
Responses ==
    { Timeout,
      Response(200, 1, FALSE, FALSE, FALSE),
      Response(200, 2, FALSE, FALSE, TRUE),
      Response(200, 2, TRUE, FALSE, FALSE),
      Response(200, 2, FALSE, TRUE, FALSE),
      WithProxyHeader(Response(200, 1, FALSE, FALSE, FALSE)),
      WithProxyHeader(Response(200, 2, FALSE, FALSE, TRUE)),
      Response(204, 1, FALSE, FALSE, FALSE),
      Response(404, 1, FALSE, FALSE, FALSE) }

HasScheme(proxy) == \E i \in 1..Len(proxy) : proxy[i] = "://"

_parse_proxy(proxy) ==
    IF HasScheme(proxy)
    THEN [protocol |-> proxy[1], host |-> proxy[3], port |-> proxy[5]]
    ELSE [protocol |-> "http", host |-> proxy[1], port |-> proxy[3]]

\* f"{host}:{port}"
HostPort(proxy) == <<_parse_proxy(proxy).host, ":", _parse_proxy(proxy).port>>

\* a variant of _detect_anonymity without the `self.real_ip and` guards
_detect_anonymity_NoIpGuard(resp) ==
    IF resp.ip_in_body THEN "transparent"
    ELSE IF resp.ip_in_headers THEN "transparent"
    ELSE IF resp.proxy_word THEN "anonymous"
    ELSE "elite"

_detect_anonymity(resp) ==
    IF real_ip # "" /\ resp.ip_in_body THEN "transparent"
    ELSE IF real_ip # "" /\ resp.ip_in_headers THEN "transparent"
    ELSE IF resp.proxy_word THEN "anonymous"
    ELSE "elite"

protocols_to_test(proxy) ==
    LET detected == _parse_proxy(proxy).protocol IN
    IF detected \in {"socks4", "socks5"} THEN <<detected>>
    ELSE IF detected = "https" THEN <<"https", "http">>
    ELSE <<"http", "https">>

\* the result dict _check_proxy starts from
ThoroughResult(proxy) ==
    [proxy |-> HostPort(proxy), working |-> FALSE, protocols |-> <<>>,
     anonymity |-> "unknown", response_time |-> NoneTime]

\* a variant of ThoroughProbe that leaves response_time as it was
ThoroughProbe_KeepsTime(result, protocol, resp) ==
    IF resp.kind = "response" /\ resp.status = 200
    THEN [result EXCEPT !.working = TRUE,
                        !.protocols = Append(@, protocol),
                        !.anonymity = IF @ = "unknown" THEN _detect_anonymity(resp) ELSE @]
    ELSE result

\* one pass of the for-loop of _check_proxy: the probe of `protocol` came back with resp
ThoroughProbe(result, protocol, resp) ==
    IF resp.kind = "response" /\ resp.status = 200
    THEN [result EXCEPT !.working = TRUE,
                        !.protocols = Append(@, protocol),
                        !.response_time = resp.elapsed,
                        !.anonymity = IF @ = "unknown" THEN _detect_anonymity(resp) ELSE @]
    ELSE result

\* the result dict _parallel_check_proxy starts from
FastResult(proxy) ==
    [proxy |-> proxy, working |-> FALSE, protocols |-> <<>>,
     anonymity |-> "anonymous", response_time |-> NoneTime]

\* the coroutines _parallel_check_proxy gathers
FastProbes == IF FAST_MODE THEN <<"http", "https">>
              ELSE <<"http", "https", "socks4", "socks5">>

\* _quick_check_http / _https / _socks: the elapsed time or None.  With a scheme in
\* `proxy` the proxy URL f'http://{proxy}' names no host:port and the request fails.
_quick_check(proxy, resp) ==
    IF HasScheme(proxy) THEN NoneTime
    ELSE IF resp.kind = "response" /\ resp.status \in {200, 204, 301, 302}
    THEN resp.elapsed
    ELSE NoneTime

RECURSIVE Minimum(_)
Minimum(s) ==
    IF Len(s) = 1 THEN s[1]
    ELSE LET m == Minimum(Tail(s)) IN IF s[1] < m THEN s[1] ELSE m

RECURSIVE SelectTimes(_, _, _)
\* the loop over enumerate(results): the <<protocol, time>> pairs of the probes that
\* returned a positive float
SelectTimes(got, names, i) ==
    IF i > Len(got) THEN <<>>
    ELSE (IF got[i] > 0 THEN <<<<names[i], got[i]>>>> ELSE <<>>)
         \o SelectTimes(got, names, i + 1)

\* a variant of ProcessParallel that reports a candidate as working whenever the
\* gather returned, whether or not a probe succeeded
ProcessParallel_AlwaysWorking(result, got) ==
    LET protocol_names == <<"http", "https", "socks4", "socks5">>
        hits == SelectTimes(got, protocol_names, 1)
        times == [k \in 1..Len(hits) |-> hits[k][2]]
    IN  [result EXCEPT !.protocols = [k \in 1..Len(hits) |-> hits[k][1]],
                       !.working = TRUE,
                       !.response_time = IF times # <<>> THEN Minimum(times)
                                         ELSE NoneTime]

\* a variant of ProcessParallel that reports the time of the first successful probe
\* instead of min(times)
ProcessParallel_FirstTime(result, got) ==
    LET protocol_names == <<"http", "https", "socks4", "socks5">>
        hits == SelectTimes(got, protocol_names, 1)
        times == [k \in 1..Len(hits) |-> hits[k][2]]
    IN  IF times # <<>>
        THEN [result EXCEPT !.protocols = [k \in 1..Len(hits) |-> hits[k][1]],
                            !.working = TRUE,
                            !.response_time = times[1]]
        ELSE [result EXCEPT !.protocols = [k \in 1..Len(hits) |-> hits[k][1]]]

\* the processing of the gathered results in _parallel_check_proxy
ProcessParallel(result, got) ==
    LET protocol_names == <<"http", "https", "socks4", "socks5">>
        hits == SelectTimes(got, protocol_names, 1)
        times == [k \in 1..Len(hits) |-> hits[k][2]]
    IN  IF times # <<>>
        THEN [result EXCEPT !.protocols = [k \in 1..Len(hits) |-> hits[k][1]],
                            !.working = TRUE,
                            !.response_time = Minimum(times)]
        ELSE [result EXCEPT !.protocols = [k \in 1..Len(hits) |-> hits[k][1]]]

\* d[key].append(x) on a dict that creates missing keys (defaultdict(list)); on the
\* plain dict of ProxyChecker the key is always present
AppendTo(d, key, x) ==
    [k \in DOMAIN d \cup {key} |->
        IF k = key THEN Append(IF key \in DOMAIN d THEN d[key] ELSE <<>>, x) ELSE d[k]]

RECURSIVE AppendToPresent(_, _, _)
\* for protocol in result['protocols']: if protocol in d: d[protocol].append(result)
AppendToPresent(d, keys, x) ==
    IF keys = <<>> THEN d
    ELSE AppendToPresent(IF Head(keys) \in DOMAIN d THEN AppendTo(d, Head(keys), x) ELSE d,
                         Tail(keys), x)

\* a variant of _categorize_result without the append to all_working
_categorize_result_SkipsAllWorking(d, result) ==
    AppendToPresent(d, result.protocols \o <<result.anonymity>>, result)

\* _categorize_result, the same text in both classes
_categorize_result(d, result) ==
    AppendToPresent(AppendTo(d, "all_working", result),
                    result.protocols \o <<result.anonymity>>, result)

(***************************************************************************)
(* check_all and its tasks.                                                *)
(***************************************************************************)
QueuedTask(proxy) ==
    [pc |-> "queued", probes |-> <<>>, pending |-> {}, got |-> <<>>,
     result |-> IF checker = "fast" THEN FastResult(proxy) ELSE ThoroughResult(proxy),
     ret |-> "pending"]

\* a variant of Batch that takes every candidate not yet checked
Batch_Rest == {i \in 1..Len(proxy_list) : batch_i < i}

Batch == {i \in 1..Len(proxy_list) : batch_i < i /\ i <= batch_i + BATCH_SIZE}

\* a variant of ProgressStep that reports half as often
ProgressStep_Double ==
    2 * (IF checker = "fast" THEN FastProgressStep ELSE ThoroughProgressStep)

ProgressStep == IF checker = "fast" THEN FastProgressStep ELSE ThoroughProgressStep

\* FastProxyChecker.check_all up to the batch loop
CheckAllStartFast(proxies, fast_mode, order) ==
    /\ checker = "fast"
    /\ runpc \in {"idle", "returned", "raised"}
    /\ FAST_MODE' = fast_mode
    /\ checked_count' = 0
    /\ working_count' = 0
    /\ total_count' = Cardinality(proxies)
    /\ results' = <<>>
    /\ proxy_list' = order
    /\ tasks' = [i \in 1..Len(order) |-> QueuedTask(order[i])]
    /\ batch_i' = 0
    /\ runpc' = "loop"
    /\ returned' = <<>>
    /\ UNCHANGED <<checker, progress_callback, real_ip, semaphore>>
    /\ UNCHANGED <<cacheVars, scrapeVars, queueVars>>

\* ProxyChecker.check_all up to the batch loop, for a non-empty set
CheckAllStartThorough(proxies, order, ip) ==
    /\ checker = "thorough"
    /\ runpc \in {"idle", "returned", "raised"}
    /\ proxies # {}
    /\ checked_count' = 0
    /\ working_count' = 0
    /\ total_count' = Cardinality(proxies)
    /\ results' = [b \in DOMAIN results |-> <<>>]
    /\ real_ip' = ip
    /\ proxy_list' = order
    /\ tasks' = [i \in 1..Len(order) |-> QueuedTask(order[i])]
    /\ batch_i' = 0
    /\ runpc' = "loop"
    /\ returned' = <<>>
    /\ UNCHANGED <<checker, progress_callback, FAST_MODE, semaphore>>
    /\ UNCHANGED <<cacheVars, scrapeVars, queueVars>>

\* ProxyChecker.check_all of an empty set: "if not proxies: return self.results"
CheckAllEmptyThorough ==
    /\ checker = "thorough"
    /\ runpc \in {"idle", "returned", "raised"}
    /\ returned' = results
    /\ runpc' = "returned"
    /\ proxy_list' = <<>>
    /\ tasks' = <<>>
    /\ UNCHANGED <<checker, progress_callback, results, checked_count, working_count,
                   total_count, FAST_MODE, real_ip, batch_i, semaphore>>
    /\ UNCHANGED <<cacheVars, scrapeVars, queueVars>>

\* one turn of the batch loop: the batch's tasks are created and gathered
BatchStart ==
    /\ runpc = "loop"
    /\ batch_i < Len(proxy_list)
    /\ tasks' = [i \in DOMAIN tasks |->
                    IF i \in Batch THEN [tasks[i] EXCEPT !.pc = "waiting"] ELSE tasks[i]]
    /\ semaphore' = IF checker = "fast" THEN MAX_CONCURRENT ELSE semaphore
    /\ runpc' = "gather"
    /\ UNCHANGED <<checker, progress_callback, results, checked_count, working_count,
                   total_count, FAST_MODE, real_ip, proxy_list, batch_i, returned>>
    /\ UNCHANGED <<cacheVars, scrapeVars, queueVars>>

\* a task starts: "async with semaphore" (fast only), then the probes are issued
TaskStart(i) ==
    /\ runpc = "gather"
    /\ i \in DOMAIN tasks
    /\ tasks[i].pc = "waiting"
    /\ checker = "fast" => semaphore > 0
    /\ semaphore' = IF checker = "fast" THEN semaphore - 1 ELSE semaphore
    /\ LET probes == IF checker = "fast" THEN FastProbes
                     ELSE protocols_to_test(proxy_list[i])
       IN tasks' = [tasks EXCEPT ![i].pc = "probing",
                                 ![i].probes = probes,
                                 ![i].pending = 1..Len(probes),
                                 ![i].got = [k \in 1..Len(probes) |-> NoneTime]]
    /\ UNCHANGED <<checker, progress_callback, results, checked_count, working_count,
                   total_count, FAST_MODE, real_ip, runpc, proxy_list, batch_i, returned>>
    /\ UNCHANGED <<cacheVars, scrapeVars, queueVars>>

\* a probe of FastProxyChecker comes back; the gathered probes finish in any order
ProbeFast(i, k, resp) ==
    /\ checker = "fast"
    /\ i \in DOMAIN tasks
    /\ tasks[i].pc = "probing"
    /\ k \in tasks[i].pending
    /\ tasks' = [tasks EXCEPT ![i].pending = @ \ {k},
                              ![i].got[k] = _quick_check(proxy_list[i], resp)]
    /\ UNCHANGED <<checker, progress_callback, results, checked_count, working_count,
                   total_count, FAST_MODE, real_ip, runpc, proxy_list, batch_i,
                   semaphore, returned>>
    /\ UNCHANGED <<cacheVars, scrapeVars, queueVars>>

\* a probe of ProxyChecker comes back; the protocols are probed one after the other
ProbeThorough(i, resp) ==
    /\ checker = "thorough"
    /\ i \in DOMAIN tasks
    /\ tasks[i].pc = "probing"
    /\ tasks[i].pending # {}
    /\ LET k == CHOOSE j \in tasks[i].pending : \A m \in tasks[i].pending : j <= m
       IN tasks' = [tasks EXCEPT ![i].pending = @ \ {k},
                                 ![i].result = ThoroughProbe(@, tasks[i].probes[k], resp)]
    /\ UNCHANGED <<checker, progress_callback, results, checked_count, working_count,
                   total_count, FAST_MODE, real_ip, runpc, proxy_list, batch_i,
                   semaphore, returned>>
    /\ UNCHANGED <<cacheVars, scrapeVars, queueVars>>

\* the result of _check_proxy / _parallel_check_proxy once every probe is back
CheckedResult(t) ==
    IF checker = "fast" THEN ProcessParallel(t.result, t.got) ELSE t.result

\* the rest of _check_with_progress up to the progress callback
Checked(i) ==
    /\ i \in DOMAIN tasks
    /\ tasks[i].pc = "probing"
    /\ tasks[i].pending = {}
    /\ LET result == CheckedResult(tasks[i])
           calls == progress_callback /\ (checked_count + 1) % ProgressStep = 0
       IN /\ checked_count' = checked_count + 1
          /\ working_count' = IF result.working THEN working_count + 1 ELSE working_count
          /\ results' = IF result.working THEN _categorize_result(results, result)
                        ELSE results
          /\ tasks' = [tasks EXCEPT ![i].result = result,
                                    ![i].probes = <<>>,
                                    ![i].got = <<>>,
                                    ![i].ret = IF result.working THEN "result" ELSE "None",
                                    ![i].pc = IF calls THEN "callback" ELSE "done"]
          /\ semaphore' = IF checker = "fast" /\ ~calls THEN semaphore + 1 ELSE semaphore
    /\ UNCHANGED <<checker, progress_callback, total_count, FAST_MODE, real_ip, runpc,
                   proxy_list, batch_i, returned>>
    /\ UNCHANGED <<cacheVars, scrapeVars, queueVars>>

\* a variant of CallbackDone that keeps the slot when the callback raises
CallbackDone_KeepsSlotOnRaise(i, raises) ==
    /\ i \in DOMAIN tasks
    /\ tasks[i].pc = "callback"
    /\ tasks' = [tasks EXCEPT ![i].pc = IF raises THEN "raised" ELSE "done"]
    /\ semaphore' = IF checker = "fast" /\ ~raises THEN semaphore + 1 ELSE semaphore
    /\ UNCHANGED <<checker, progress_callback, results, checked_count, working_count,
                   total_count, FAST_MODE, real_ip, runpc, proxy_list, batch_i, returned>>
    /\ UNCHANGED <<cacheVars, scrapeVars, queueVars>>

\* the awaited progress callback of a task returns or raises; the slot is released
CallbackDone(i, raises) ==
    /\ i \in DOMAIN tasks
    /\ tasks[i].pc = "callback"
    /\ tasks' = [tasks EXCEPT ![i].pc = IF raises THEN "raised" ELSE "done"]
    /\ semaphore' = IF checker = "fast" THEN semaphore + 1 ELSE semaphore
    /\ UNCHANGED <<checker, progress_callback, results, checked_count, working_count,
                   total_count, FAST_MODE, real_ip, runpc, proxy_list, batch_i, returned>>
    /\ UNCHANGED <<cacheVars, scrapeVars, queueVars>>

\* gather returns, then the sleep between two batches
BatchDone ==
    /\ runpc = "gather"
    /\ \A i \in Batch : tasks[i].pc \in {"done", "raised"}
    /\ batch_i' = batch_i + BATCH_SIZE
    /\ runpc' = "loop"
    /\ UNCHANGED <<checker, progress_callback, results, checked_count, working_count,
                   total_count, FAST_MODE, real_ip, proxy_list, semaphore, tasks, returned>>
    /\ UNCHANGED <<cacheVars, scrapeVars, queueVars>>

\* after the loop: the final progress update returns, and check_all returns
CheckAllReturn ==
    /\ runpc = "loop"
    /\ batch_i >= Len(proxy_list)
    /\ returned' = results
    /\ runpc' = "returned"
    /\ proxy_list' = <<>>
    /\ tasks' = <<>>
    /\ UNCHANGED <<checker, progress_callback, results, checked_count, working_count,
                   total_count, FAST_MODE, real_ip, batch_i, semaphore>>
    /\ UNCHANGED <<cacheVars, scrapeVars, queueVars>>

\* after the loop: the final progress update raises out of check_all
CheckAllRaise ==
    /\ runpc = "loop"
    /\ batch_i >= Len(proxy_list)
    /\ progress_callback
    /\ runpc' = "raised"
    /\ proxy_list' = <<>>
    /\ tasks' = <<>>
    /\ UNCHANGED <<checker, progress_callback, results, checked_count, working_count,
                   total_count, FAST_MODE, real_ip, batch_i, semaphore, returned>>
    /\ UNCHANGED <<cacheVars, scrapeVars, queueVars>>

InitCheck ==
    /\ checker \in {"thorough", "fast"}
    /\ progress_callback \in BOOLEAN
    /\ results = IF checker = "fast" THEN <<>> ELSE [b \in Buckets |-> <<>>]
    /\ checked_count = 0
    /\ working_count = 0
    /\ total_count = 0
    /\ FAST_MODE = TRUE
    /\ real_ip = ""
    /\ runpc = "idle"
    /\ proxy_list = <<>>
    /\ batch_i = 0
    /\ semaphore = 0
    /\ tasks = <<>>
    /\ returned = <<>>

NextCheck ==
    \/ \E fast_mode \in BOOLEAN :
           \E proxies \in IF fast_mode THEN SUBSET FastCandidates ELSE FullModeInputs :
           \E order \in Orderings(proxies) : CheckAllStartFast(proxies, fast_mode, order)
    \/ \E proxies \in SUBSET ThoroughCandidates, ip \in {"", TesterIp} :
           \E order \in Orderings(proxies) : CheckAllStartThorough(proxies, order, ip)
    \/ CheckAllEmptyThorough
    \/ BatchStart
    \/ \E i \in DOMAIN tasks : TaskStart(i)
    \/ \E i \in DOMAIN tasks, resp \in Responses :
           \E k \in tasks[i].pending : ProbeFast(i, k, resp)
    \/ \E i \in DOMAIN tasks, resp \in Responses : ProbeThorough(i, resp)
    \/ \E i \in DOMAIN tasks : Checked(i)
    \/ \E i \in DOMAIN tasks, raises \in BOOLEAN : CallbackDone(i, raises)
    \/ BatchDone
    \/ CheckAllReturn
    \/ CheckAllRaise

(***************************************************************************)
(* utils.py: AsyncQueue.  The coroutines are numbered in the order they    *)
(* are put.  asyncio runs one coroutine at a time and changes to another   *)
(* only where the running one suspends: process_queue's loop has no such   *)
(* point, because Queue.get() returns at once from a queue that is not     *)
(* empty, so a task made by create_task runs only outside the loop.        *)
(***************************************************************************)
\* the coroutines ever put on the queue
Put == Len(queue) + Cardinality(created) + Cardinality(ended)

\* add_task(coro), called while process_queue is not running
add_task ==
    /\ queuepc \in {"idle", "returned"}
    /\ Put < MaxQueued
    /\ queue' = Append(queue, Put + 1)
    /\ UNCHANGED <<max_concurrent, active_tasks, queuepc, created, ended, turns>>
    /\ UNCHANGED <<cacheVars, checkVars, scrapeVars>>

\* process_queue() is called
process_queue ==
    /\ queuepc \in {"idle", "returned"}
    /\ queuepc' = "loop"
    /\ turns' = 0
    /\ UNCHANGED <<queue, max_concurrent, active_tasks, created, ended>>
    /\ UNCHANGED <<cacheVars, checkVars, scrapeVars>>

\* a turn of the loop with a free slot: the oldest coroutine is taken and a task is
\* created for it
TakeTask ==
    /\ queuepc = "loop"
    /\ queue # <<>>
    /\ active_tasks < max_concurrent
    /\ queue' = Tail(queue)
    /\ active_tasks' = active_tasks + 1
    /\ created' = created \cup {Head(queue)}
    /\ UNCHANGED <<max_concurrent, queuepc, ended, turns>>
    /\ UNCHANGED <<cacheVars, checkVars, scrapeVars>>

\* a turn of the loop without a free slot: the condition of the while is tested again
SpinTurn ==
    /\ queuepc = "loop"
    /\ queue # <<>>
    /\ active_tasks >= max_concurrent
    /\ turns' = (turns + 1) % (MaxTurns + 1)
    /\ UNCHANGED <<queue, max_concurrent, active_tasks, queuepc, created, ended>>
    /\ UNCHANGED <<cacheVars, checkVars, scrapeVars>>

\* the queue is empty: the loop ends and process_queue returns
process_queue_return ==
    /\ queuepc = "loop"
    /\ queue = <<>>
    /\ queuepc' = "returned"
    /\ UNCHANGED <<queue, max_concurrent, active_tasks, created, ended, turns>>
    /\ UNCHANGED <<cacheVars, checkVars, scrapeVars>>

\* _execute_task(coro): the coroutine returns or raises; finally the slot is given back
_execute_task(coro, raises) ==
    /\ queuepc # "loop"
    /\ coro \in created
    /\ created' = created \ {coro}
    /\ ended' = ended \cup {[coro |-> coro, how |-> IF raises THEN "raised" ELSE "returned"]}
    /\ active_tasks' = active_tasks - 1
    /\ UNCHANGED <<queue, max_concurrent, queuepc, turns>>
    /\ UNCHANGED <<cacheVars, checkVars, scrapeVars>>

\* AsyncQueue.__init__
InitAsyncQueue ==
    /\ queue = <<>>
    /\ active_tasks = 0
    /\ queuepc = "idle"
    /\ created = {}
    /\ ended = {}
    /\ turns = 0

\* AsyncQueue(), with the default max_concurrent, that no model but SpecQueue uses
DefaultConcurrent == 5
InitQueueIdle == InitAsyncQueue /\ max_concurrent = DefaultConcurrent

\* what process_queue does next
LoopTurn == TakeTask \/ SpinTurn \/ process_queue_return

\* a created task runs
RunTask == \E coro \in created, raises \in BOOLEAN : _execute_task(coro, raises)

NextQueue ==
    \/ add_task
    \/ process_queue
    \/ TakeTask
    \/ SpinTurn
    \/ process_queue_return
    \/ \E coro \in created, raises \in BOOLEAN : _execute_task(coro, raises)

(***************************************************************************)
(* Specifications.  Spec: the cache under any sequence of Database calls.  *)
(* SpecCheck: one validator instance under any sequence of check_all runs. *)
(***************************************************************************)
InitCache ==
    /\ cache = {}
    /\ clock = 2 * HoursPerDay
    /\ tz \in TzOffsets
    /\ lastCall = NoCall

NextCache ==
    \/ \E proxy \in Ids, r \in CheckResults : cache_working_proxy(proxy, r)
    \/ \E proxy \in Ids : mark_proxy_dead(proxy)
    \/ \E f \in QueryFilters, h \in AgeHours : get_cached_proxies(f[1], f[2], h)
    \/ \E days \in AgeDays : cleanup_old_cached_proxies(days)
    \/ Tick

\* no scrape_all call has returned yet
NoRun == [sources |-> <<>>, max_proxies |-> 0, fetched |-> {}, ret |-> {}, done |-> FALSE]

\* ProxyScraper.__init__
InitScrape ==
    /\ web_sources = <<>>
    /\ scraped_proxies = {}
    /\ scraped_count = 0
    /\ sources_completed = 0
    /\ max_proxies = 0
    /\ scrapepc = "idle"
    /\ source_i = 0
    /\ fetches = <<>>
    /\ this_run = NoRun
    /\ last_run = NoRun

InitCheckIdle ==
    /\ InitCheck
    /\ checker = "fast"
    /\ ~progress_callback

InitCacheIdle ==
    /\ InitCache
    /\ tz = 0

Init == InitCache /\ InitCheckIdle /\ InitScrape /\ InitQueueIdle
Next == NextCache
Spec == Init /\ [][Next]_vars

\* the cache when the storage layer may fail under a write
NextFail ==
    \/ NextCache
    \/ \E proxy \in Ids, r \in CheckResults, at \in FailurePoints :
          cache_working_proxy_fails(proxy, r, at)
    \/ \E proxy \in Ids, at \in FailurePoints : mark_proxy_dead_fails(proxy, at)
InitFail == InitCacheIdle /\ InitCheckIdle /\ InitScrape /\ InitQueueIdle
SpecFail == InitFail /\ [][NextFail]_vars

(***************************************************************************)
(* proxy_scraper.py.  A text is the sequence of its characters, and the    *)
(* two patterns are matched on characters the way re.findall matches them: *)
(* from left to right, each match starting where the one before it ended.  *)
(***************************************************************************)
Digits == {"0", "1", "2", "3", "4", "5", "6", "7", "8", "9"}

\* the characters \w matches, of those the texts are written with
WordChars ==
    Digits \cup {"_", "a", "b", "c", "d", "e", "f", "g", "h", "i", "j", "k", "l", "m",
                 "n", "o", "p", "q", "r", "s", "t", "u", "v", "w", "x", "y", "z"}

\* the character at position i, "" past the end of the text
At(text, i) == IF i >= 1 /\ i <= Len(text) THEN text[i] ELSE ""

\* text has the characters of word from position i on
StartsWith(text, i, word) ==
    /\ i + Len(word) - 1 <= Len(text)
    /\ \A k \in 1..Len(word) : text[i + k - 1] = word[k]

RECURSIVE DigitRun(_, _, _)
\* \d{..,max} from position i: how many digits it takes
DigitRun(text, i, max) ==
    IF max = 0 \/ At(text, i) \notin Digits THEN 0
    ELSE 1 + DigitRun(text, i + 1, max - 1)

RECURSIVE WordRun(_, _)
\* [\w]+ from position i: how many characters it takes
WordRun(text, i) ==
    IF At(text, i) \notin WordChars THEN 0 ELSE 1 + WordRun(text, i + 1)

RECURSIVE MatchOctets(_, _, _)
\* (?:\d{1,3}\.){n} from position i: the position after it, 0 when it does not match
MatchOctets(text, i, n) ==
    IF n = 0 THEN i
    ELSE LET k == DigitRun(text, i, 3)
         IN  IF k >= 1 /\ At(text, i + k) = "." THEN MatchOctets(text, i + k + 1, n - 1)
             ELSE 0

\* ((?:\d{1,3}\.){3}\d{1,3}): from position i: the position of the colon, 0 when it
\* does not match
MatchIp(text, i) ==
    LET j == MatchOctets(text, i, 3)
        k == DigitRun(text, j, 3)
    IN  IF j # 0 /\ k >= 1 /\ At(text, j + k) = ":" THEN j + k ELSE 0

NoMatch == [ok |-> FALSE, groups |-> <<>>, end |-> 0]

\* ip:port(?:\D|$) with the ip at position i: the port's digits must end the text or
\* be followed by a character that is no digit, which the match takes
MatchBasicFrom(text, i) ==
    LET c == MatchIp(text, i)
        k == DigitRun(text, c + 1, 5)
        next == c + 1 + k
    IN  IF c # 0 /\ k >= 2 /\ At(text, next) \notin Digits
        THEN [ok |-> TRUE,
              groups |-> <<SubSeq(text, i, c - 1), SubSeq(text, c + 1, c + k)>>,
              end |-> IF next <= Len(text) THEN next + 1 ELSE next]
        ELSE NoMatch

\* proxy_pattern tried at position s: (?:^|\D) is the start of the text or one
\* character that is no digit
MatchBasicAt(text, s) ==
    IF s = 1 /\ MatchBasicFrom(text, s).ok THEN MatchBasicFrom(text, s)
    ELSE IF At(text, s) \notin Digits THEN MatchBasicFrom(text, s + 1)
    ELSE NoMatch

\* (https?|socks[45]) at position s: the scheme it matches, <<>> when none
Schemes == <<"https", "http", "socks4", "socks5">>
SchemeAt(text, s) ==
    IF \E n \in 1..Len(Schemes) : StartsWith(text, s, Letters(Schemes[n]) \o <<":", "/", "/">>)
    THEN Letters(Schemes[CHOOSE n \in 1..Len(Schemes) :
                     StartsWith(text, s, Letters(Schemes[n]) \o <<":", "/", "/">>)])
    ELSE <<>>

\* (?:[\w]+:[\w]+@)? at position i: the position after user:password@, 0 when the
\* text has none there
AuthEnd(text, i) ==
    LET u == WordRun(text, i)
        p == WordRun(text, i + u + 1)
    IN  IF u >= 1 /\ At(text, i + u) = ":" /\ p >= 1 /\ At(text, i + u + 1 + p) = "@"
        THEN i + u + p + 2
        ELSE 0

\* ip:port with the ip at position i, the port taking up to five digits
MatchProtocolFrom(text, protocol, i) ==
    LET c == MatchIp(text, i)
        k == DigitRun(text, c + 1, 5)
    IN  IF i # 0 /\ c # 0 /\ k >= 2
        THEN [ok |-> TRUE,
              groups |-> <<protocol, SubSeq(text, i, c - 1), SubSeq(text, c + 1, c + k)>>,
              end |-> c + 1 + k]
        ELSE NoMatch

\* protocol_pattern tried at position s
MatchProtocolAt(text, s) ==
    LET protocol == SchemeAt(text, s)
        i == s + Len(protocol) + 3
    IN  IF protocol = <<>> THEN NoMatch
        ELSE IF MatchProtocolFrom(text, protocol, AuthEnd(text, i)).ok
        THEN MatchProtocolFrom(text, protocol, AuthEnd(text, i))
        ELSE MatchProtocolFrom(text, protocol, i)

RECURSIVE FindAllBasic(_, _)
\* self.proxy_pattern.findall(text), from position s on
FindAllBasic(text, s) ==
    IF s > Len(text) THEN <<>>
    ELSE IF MatchBasicAt(text, s).ok
    THEN <<MatchBasicAt(text, s).groups>> \o FindAllBasic(text, MatchBasicAt(text, s).end)
    ELSE FindAllBasic(text, s + 1)

RECURSIVE FindAllProtocol(_, _)
\* self.protocol_pattern.findall(text), from position s on
FindAllProtocol(text, s) ==
    IF s > Len(text) THEN <<>>
    ELSE IF MatchProtocolAt(text, s).ok
    THEN <<MatchProtocolAt(text, s).groups>>
         \o FindAllProtocol(text, MatchProtocolAt(text, s).end)
    ELSE FindAllProtocol(text, s + 1)

\* int(c) for a digit c
DigitValue(c) ==
    CHOOSE n \in 0..9 : <<"0", "1", "2", "3", "4", "5", "6", "7", "8", "9">>[n + 1] = c

RECURSIVE IntOf(_)
\* int(s) for a text of digits
IntOf(s) ==
    IF s = <<>> THEN 0
    ELSE IntOf(SubSeq(s, 1, Len(s) - 1)) * 10 + DigitValue(s[Len(s)])

RECURSIVE SplitDots(_)
\* ip.split('.')
SplitDots(ip) ==
    IF \E i \in 1..Len(ip) : ip[i] = "."
    THEN LET i == CHOOSE j \in 1..Len(ip) : ip[j] = "." /\ \A m \in 1..(j - 1) : ip[m] # "."
         IN <<SubSeq(ip, 1, i - 1)>> \o SplitDots(SubSeq(ip, i + 1, Len(ip)))
    ELSE <<ip>>

_is_valid_ip(ip) ==
    /\ Len(SplitDots(ip)) = 4
    /\ \A k \in 1..4 : 0 <= IntOf(SplitDots(ip)[k]) /\ IntOf(SplitDots(ip)[k]) <= 255

\* a variant of _is_valid_port that accepts every number the pattern's five digits
\* can write
_is_valid_port_FiveDigits(port) == 1 <= IntOf(port) /\ IntOf(port) <= 99999

_is_valid_port(port) == 1 <= IntOf(port) /\ IntOf(port) <= 65535

\* the tuples a findall returned, as the for-loops of _scrape_from_url go through them
Members(matches) == {matches[n] : n \in 1..Len(matches)}

\* the candidates _scrape_from_url takes from the text of a response: each findall is
\* made once, and the tuples with a valid ip and port are formatted and added
Extract(text) ==
    {m[1] \o <<":", "/", "/">> \o m[2] \o <<":">> \o m[3] :
        m \in {g \in UNION {Members(protocol_matches) :
                              protocol_matches \in {FindAllProtocol(text, 1)}} :
                  _is_valid_ip(g[2]) /\ _is_valid_port(g[3])}}
    \cup
    {m[1] \o <<":">> \o m[2] :
        m \in {g \in UNION {Members(basic_matches) :
                              basic_matches \in {FindAllBasic(text, 1)}} :
                  _is_valid_ip(g[1]) /\ _is_valid_port(g[2])}}

\* the texts the sources serve
ListText ==
    <<"p", "r", "o", "x", "y", " ", "l", "i", "s", "t", ":", " ", "1", ".", "2", ".",
      "3", ".", "4", ":", "8", "0", "8", "0", " ", "h", "t", "t", "p", ":", "/", "/",
      "5", ".", "6", ".", "7", ".", "8", ":", "3", "1", "2", "8", " ", "b", "a", "d",
      ":", "p", "o", "r", "t", " ", "9", "9", "9", ".", "1", ".", "1", ".", "1", ":",
      "8", "0">>
LinesText ==
    <<"1", ".", "2", ".", "3", ".", "4", ":", "8", "0", "8", "0", "\n", "9", ".",
      "9", ".", "9", ".", "9", ":", "1", "0", "8", "0", "\n", "s", "o", "c", "k",
      "s", "5", ":", "/", "/", "u", ":", "p", "@", "7", ".", "7", ".", "7", ".", "7",
      ":", "1", "0", "8", "0", " ", "h", "t", "t", "p", ":", "/", "/", "1", ".", "1",
      ".", "1", ".", "1", ":", "9", "9", "9", "9", "9">>

\* what _scrape_from_url takes from each of them
ListCandidates == Extract(ListText)
LinesCandidates == Extract(LinesText)

\* the sources and what each of them serves
Urls == {"list", "lines"}
SourceCandidates(url) ==
    CASE url = "list" -> ListCandidates
      [] url = "lines" -> LinesCandidates

\* the saved sources a scraper is created with
SourceLists == {<<"list">>, <<"list", "lines">>, <<"lines", "list", "lines">>}

\* what session.get meets: a response with a status, a timeout, a network error
FetchOutcomes ==
    {[kind |-> "response", status |-> 200], [kind |-> "response", status |-> 404],
     [kind |-> "timeout", status |-> 0], [kind |-> "error", status |-> 0]}

\* a variant of _scrape_from_url that reads the body of a response whatever its status
_scrape_from_url_AnyStatus(url, response) ==
    IF response.kind = "response" THEN SourceCandidates(url) ELSE {}

\* _scrape_from_url: the candidates one source contributes
_scrape_from_url(url, response) ==
    IF response.kind = "response" /\ response.status = 200
    THEN SourceCandidates(url)
    ELSE {}

\* max_proxies = None
NoLimit == -1
Limits == {NoLimit} \cup 0..MaxLimit

\* "if max_proxies and ...": None and 0 are both false
Truthy(limit) == limit # NoLimit /\ limit # 0

\* a variant of FetchBatch that hands every remaining source to one gather
FetchBatch_Rest == {i \in 1..Len(web_sources) : source_i < i}

\* the sources the loop has handed to the gather in progress
FetchBatch == {i \in 1..Len(web_sources) : source_i < i /\ i <= source_i + GatherSize}

\* add_sources(sources), called once when the scraper is created
add_sources(sources) ==
    /\ scrapepc = "idle"
    /\ web_sources = <<>>
    /\ web_sources' = web_sources \o sources
    /\ UNCHANGED <<scraped_proxies, scraped_count, sources_completed, max_proxies,
                   scrapepc, source_i, fetches, this_run, last_run>>
    /\ UNCHANGED <<cacheVars, checkVars, queueVars>>

\* scrape_all with no source loaded: it returns a new empty set
scrape_all_empty(limit) ==
    /\ scrapepc \in {"idle", "returned"}
    /\ web_sources = <<>>
    /\ scrapepc' = "returned"
    /\ last_run' = this_run
    /\ this_run' = [sources |-> <<>>, max_proxies |-> limit, fetched |-> {}, ret |-> {},
                    done |-> TRUE]
    /\ UNCHANGED <<web_sources, scraped_proxies, scraped_count, sources_completed,
                   max_proxies, source_i, fetches>>
    /\ UNCHANGED <<cacheVars, checkVars, queueVars>>

\* scrape_all up to the loop over the sources
scrape_all_start(limit) ==
    /\ scrapepc \in {"idle", "returned"}
    /\ web_sources # <<>>
    /\ scraped_proxies' = {}
    /\ scraped_count' = 0
    /\ sources_completed' = 0
    /\ max_proxies' = limit
    /\ source_i' = 0
    /\ fetches' = [i \in 1..Len(web_sources) |-> [pc |-> "queued", response |-> <<>>]]
    /\ scrapepc' = "loop"
    /\ last_run' = this_run
    /\ this_run' = NoRun
    /\ UNCHANGED web_sources
    /\ UNCHANGED <<cacheVars, checkVars, queueVars>>

\* the loop has collected the next tasks and hands them to asyncio.gather
GatherStart ==
    /\ scrapepc = "loop"
    /\ source_i < Len(web_sources)
    /\ fetches' = [i \in DOMAIN fetches |->
                      IF i \in FetchBatch THEN [fetches[i] EXCEPT !.pc = "fetching"]
                      ELSE fetches[i]]
    /\ scrapepc' = "gather"
    /\ UNCHANGED <<web_sources, scraped_proxies, scraped_count, sources_completed,
                   max_proxies, source_i, this_run, last_run>>
    /\ UNCHANGED <<cacheVars, checkVars, queueVars>>

\* a variant of _scrape_with_progress that counts a source only when its fetch found
\* candidates
_scrape_with_progress_CountsFound(i, response) ==
    /\ scrapepc = "gather"
    /\ i \in DOMAIN fetches
    /\ fetches[i].pc = "fetching"
    /\ fetches' = [fetches EXCEPT ![i] = [pc |-> "done", response |-> response]]
    /\ scraped_proxies' = scraped_proxies \cup _scrape_from_url(web_sources[i], response)
    /\ sources_completed' = IF _scrape_from_url(web_sources[i], response) # {}
                            THEN sources_completed + 1 ELSE sources_completed
    /\ scraped_count' = Cardinality(scraped_proxies')
    /\ UNCHANGED <<web_sources, max_proxies, scrapepc, source_i, this_run, last_run>>
    /\ UNCHANGED <<cacheVars, checkVars, queueVars>>

\* _scrape_with_progress: the fetch of source i is over and its candidates are added;
\* what the awaited progress callback does after that, gather discards
_scrape_with_progress(i, response) ==
    /\ scrapepc = "gather"
    /\ i \in DOMAIN fetches
    /\ fetches[i].pc = "fetching"
    /\ fetches' = [fetches EXCEPT ![i] = [pc |-> "done", response |-> response]]
    /\ scraped_proxies' = scraped_proxies \cup _scrape_from_url(web_sources[i], response)
    /\ sources_completed' = sources_completed + 1
    /\ scraped_count' = Cardinality(scraped_proxies')
    /\ UNCHANGED <<web_sources, max_proxies, scrapepc, source_i, this_run, last_run>>
    /\ UNCHANGED <<cacheVars, checkVars, queueVars>>

\* gather returns; after a full batch the loop breaks once the limit is reached
GatherDone ==
    /\ scrapepc = "gather"
    /\ \A i \in FetchBatch : fetches[i].pc = "done"
    /\ source_i' = source_i + Cardinality(FetchBatch)
    /\ scrapepc' = IF /\ Cardinality(FetchBatch) >= GatherSize
                      /\ Truthy(max_proxies)
                      /\ scraped_count >= max_proxies
                   THEN "finish" ELSE "loop"
    /\ UNCHANGED <<web_sources, scraped_proxies, scraped_count, sources_completed,
                   max_proxies, fetches, this_run, last_run>>
    /\ UNCHANGED <<cacheVars, checkVars, queueVars>>

\* set(list(self.scraped_proxies)[:max_proxies]): the order in which a set lists its
\* members is not fixed by its members, so any max_proxies of them can be the ones kept
Truncations(found, limit) ==
    IF Truthy(limit) /\ Cardinality(found) > limit
    THEN {kept \in SUBSET found : Cardinality(kept) = limit}
    ELSE {found}

\* the end of scrape_all: the truncation to max_proxies and the return
scrape_all_return ==
    /\ scrapepc = "finish" \/ (scrapepc = "loop" /\ source_i >= Len(web_sources))
    /\ \E kept \in Truncations(scraped_proxies, max_proxies) :
          /\ scraped_proxies' = kept
          /\ scraped_count' = IF kept = scraped_proxies THEN scraped_count
                              ELSE Cardinality(kept)
          /\ this_run' = [sources |-> web_sources, max_proxies |-> max_proxies,
                          fetched |-> {i \in DOMAIN fetches :
                                          /\ fetches[i].pc = "done"
                                          /\ fetches[i].response.kind = "response"
                                          /\ fetches[i].response.status = 200},
                          ret |-> kept, done |-> TRUE]
    /\ fetches' = <<>>
    /\ scrapepc' = "returned"
    /\ UNCHANGED <<web_sources, sources_completed, max_proxies, source_i, last_run>>
    /\ UNCHANGED <<cacheVars, checkVars, queueVars>>

NextScrape ==
    \/ \E sources \in SourceLists : add_sources(sources)
    \/ \E limit \in Limits : scrape_all_empty(limit)
    \/ \E limit \in Limits : scrape_all_start(limit)
    \/ GatherStart
    \/ \E i \in DOMAIN fetches, response \in FetchOutcomes : _scrape_with_progress(i, response)
    \/ GatherDone
    \/ scrape_all_return

InitScraper == InitScrape /\ InitCacheIdle /\ InitCheckIdle /\ InitQueueIdle
SpecScrape == InitScraper /\ [][NextScrape]_vars

(***************************************************************************)
(* bot.py: perform_checking drives FastProxyChecker.check_all and caches   *)
(* what it found.                                                          *)
(***************************************************************************)
RECURSIVE Text(_)
\* the string a candidate is, its pieces put together
Text(proxy) == IF proxy = <<>> THEN "" ELSE Head(proxy) \o Text(Tail(proxy))

\* the candidates handed to perform_checking, and what their probes meet
BotCandidates == {<<"1.1.1.1", ":", "80">>, <<"2.2.2.2", ":", "80">>}
BotResponses == {Timeout, Response(200, 1, FALSE, FALSE, FALSE)}

\* the table after db.cache_working_proxy(proxy, ...) for one result
CachedResult(c, result) ==
    LET r == [protocols |-> result.protocols, anonymity |-> result.anonymity,
              response_time |-> result.response_time]
        old == CHOOSE q \in c : q.proxy = Text(result.proxy)
    IN  IF \E q \in c : q.proxy = Text(result.proxy)
        THEN (c \ {old}) \cup {UpdatedRow(old, r)}
        ELSE c \cup {InsertedRow(Text(result.proxy), r)}

RECURSIVE CacheAll(_, _)
\* for proxy_result in results.get('all_working', []): db.cache_working_proxy(...)
CacheAll(c, working) ==
    IF working = <<>> THEN c
    ELSE CacheAll(CachedResult(c, Head(working)), Tail(working))

\* a variant of AllWorking that yields the first working result only
AllWorking_FirstOnly(d) ==
    IF "all_working" \in DOMAIN d /\ d["all_working"] # <<>>
    THEN <<d["all_working"][1]>> ELSE <<>>

\* results.get('all_working', [])
AllWorking(d) == IF "all_working" \in DOMAIN d THEN d["all_working"] ELSE <<>>

\* perform_checking up to the first await inside check_all
perform_checking(proxies, order) ==
    /\ \A r \in cache : r.check_count < MaxChecks
    /\ CheckAllStartFast(proxies, TRUE, order)

\* perform_checking from the return of check_all on: the final progress update has
\* returned, check_all returns the mapping, and every working result is cached
perform_checking_caches ==
    /\ runpc = "loop"
    /\ batch_i >= Len(proxy_list)
    /\ returned' = results
    /\ runpc' = "returned"
    /\ proxy_list' = <<>>
    /\ tasks' = <<>>
    /\ cache' = CacheAll(cache, AllWorking(results))
    /\ lastCall' = IF AllWorking(results) = <<>> THEN lastCall
                   ELSE LET last == AllWorking(results)[Len(AllWorking(results))]
                        IN Call("cache_working_proxy",
                                <<Text(last.proxy), last.protocols, last.anonymity,
                                  last.response_time>>, <<>>)
    /\ UNCHANGED <<checker, progress_callback, results, checked_count, working_count,
                   total_count, FAST_MODE, real_ip, batch_i, semaphore, clock, tz>>
    /\ UNCHANGED <<scrapeVars, queueVars>>

InitBot ==
    /\ InitCheck
    /\ checker = "fast"
    /\ progress_callback
    /\ InitCacheIdle
    /\ InitScrape
    /\ InitQueueIdle

NextBot ==
    \/ \E proxies \in SUBSET BotCandidates :
           \E order \in Orderings(proxies) : perform_checking(proxies, order)
    \/ BatchStart
    \/ \E i \in DOMAIN tasks : TaskStart(i)
    \/ \E i \in DOMAIN tasks, resp \in BotResponses :
           \E k \in tasks[i].pending : ProbeFast(i, k, resp)
    \/ \E i \in DOMAIN tasks : Checked(i)
    \/ \E i \in DOMAIN tasks : CallbackDone(i, FALSE)
    \/ BatchDone
    \/ perform_checking_caches

SpecBot == InitBot /\ [][NextBot]_vars

InitChecker == InitCheck /\ InitCacheIdle /\ InitScrape /\ InitQueueIdle
SpecCheck == InitChecker /\ [][NextCheck]_vars

\* an AsyncQueue under any sequence of add_task and process_queue calls; the coroutine
\* that runs goes on running, and a task that can run is run
InitQueue ==
    /\ InitAsyncQueue
    /\ max_concurrent \in 1..MaxConcurrent
    /\ InitCacheIdle
    /\ InitCheckIdle
    /\ InitScrape
SpecQueue ==
    InitQueue /\ [][NextQueue]_vars /\ WF_vars(LoopTurn) /\ WF_vars(RunTask)
(***************************************************************************)
(* Properties of the cache, checked under Spec.                            *)
(***************************************************************************)
\* the UTC instant a stored last_checked text denotes
Instant(ts) == ts[1] * HoursPerDay + ts[3]

RECURSIVE Split(_)
\* text.split(','): the protocol names a stored protocols text lists
Split(text) ==
    IF \E i \in 1..Len(text) : text[i] = ","
    THEN LET i == CHOOSE j \in 1..Len(text) :
                      text[j] = "," /\ \A m \in 1..(j - 1) : text[m] # ","
         IN <<SubSeq(text, 1, i - 1)>> \o Split(SubSeq(text, i + 1, Len(text)))
    ELSE <<text>>

\* protocol is one of the names the protocols text lists
Lists(text, protocol) ==
    \E k \in 1..Len(Split(text)) : Split(text)[k] = Letters(protocol)

Returned == {lastCall.ret[k] : k \in 1..Len(lastCall.ret)}

\* the step is a call of method op
CallOf(op) == lastCall'.op = op /\ clock' = clock

\* C3: every row has check_count >= success_count >= 0, whatever calls were made
C3_CountsOrdered ==
    \A r \in cache : r.check_count >= r.success_count /\ r.success_count >= 0

\* a row that failed once and succeeded twice, seen by a cleanup that kept it
C3_Witness ==
    /\ lastCall.op = "cleanup_old_cached_proxies"
    /\ \E r \in cache : r.check_count = 3 /\ r.success_count = 2

\* C4: get_cached_proxies(max_age_hours = H) returns no row whose last_checked is
\* more than H hours before the query
C4_NeverOlderThanMaxAge ==
    lastCall.op = "get_cached_proxies" =>
        \A r \in Returned : clock - Instant(r.last_checked) <= lastCall.args[3]

\* C5: get_cached_proxies returns every working row checked less than max_age_hours
\* ago that passes the filters, in non-decreasing order of response_time
C5_ReturnsEveryFreshRow ==
    lastCall.op = "get_cached_proxies" =>
        /\ \A r \in cache :
              ( /\ r.is_working
                /\ clock - Instant(r.last_checked) < lastCall.args[3]
                /\ (lastCall.args[1] # NoArg => Lists(r.protocols, lastCall.args[1]))
                /\ (lastCall.args[2] # NoArg => r.anonymity = lastCall.args[2]) )
              => r \in Returned
        /\ \A k \in 1..(Len(lastCall.ret) - 1) :
              lastCall.ret[k].response_time <= lastCall.ret[k + 1].response_time

\* C6: get_cached_proxies(protocol = p) returns only rows whose protocols list p
C6_ProtocolIsMember ==
    (lastCall.op = "get_cached_proxies" /\ lastCall.args[1] # NoArg) =>
        \A r \in Returned : Lists(r.protocols, lastCall.args[1])

\* C7: cache_working_proxy creates a row with counts 1 and 1 for an unknown proxy;
\* for a known one it overwrites protocols, anonymity and response_time with the
\* call's values, sets last_checked to now, adds 1 to both counts; either way the
\* row is working afterwards and no other row changes
C7_UpsertEffect ==
    [][CallOf("cache_working_proxy") =>
        LET proxy == lastCall'.args[1]
            new == CHOOSE r \in cache' : r.proxy = proxy
        IN  /\ \E r \in cache' : r.proxy = proxy
            /\ \A r \in cache' : r.proxy = proxy => r = new
            /\ new.protocols = Join(lastCall'.args[2])
            /\ new.anonymity = lastCall'.args[3]
            /\ new.response_time = lastCall'.args[4]
            /\ new.last_checked = CurrentTimestamp(clock)
            /\ new.is_working
            /\ IF HasRow(proxy)
               THEN /\ new.check_count = RowOf(proxy).check_count + 1
                    /\ new.success_count = RowOf(proxy).success_count + 1
                    /\ ~TextLess(new.last_checked, RowOf(proxy).last_checked)
               ELSE new.check_count = 1 /\ new.success_count = 1
            /\ {r \in cache' : r.proxy # proxy} = {r \in cache : r.proxy # proxy}
      ]_vars

\* the second upsert of a proxy has just replaced the first one's values
C7_Witness ==
    /\ lastCall.op = "cache_working_proxy"
    /\ \E r \in cache :
          /\ r.proxy = lastCall.args[1]
          /\ r.check_count = 2 /\ r.success_count = 2 /\ r.is_working
          /\ r.protocols = Join(lastCall.args[2])
          /\ r.protocols = Letters("https")
          /\ Instant(r.last_checked) > 2 * HoursPerDay

\* C8: mark_proxy_dead of a known proxy clears is_working, sets last_checked to now,
\* adds 1 to check_count and changes nothing else of the row or of any other row
C8_MarkDeadEffect ==
    [][(CallOf("mark_proxy_dead") /\ HasRow(lastCall'.args[1])) =>
        LET proxy == lastCall'.args[1]
            old == RowOf(proxy)
            new == CHOOSE r \in cache' : r.proxy = proxy
        IN  /\ \E r \in cache' : r.proxy = proxy
            /\ \A r \in cache' : r.proxy = proxy => r = new
            /\ ~new.is_working
            /\ new.last_checked = CurrentTimestamp(clock)
            /\ ~TextLess(new.last_checked, old.last_checked)
            /\ new.check_count = old.check_count + 1
            /\ new.success_count = old.success_count
            /\ new.protocols = old.protocols
            /\ new.anonymity = old.anonymity
            /\ new.response_time = old.response_time
            /\ {r \in cache' : r.proxy # proxy} = {r \in cache : r.proxy # proxy}
      ]_vars

\* a row has just been marked dead, later than it was cached, beside a working row
C8_Witness ==
    /\ lastCall.op = "mark_proxy_dead"
    /\ \E r \in cache :
          /\ r.proxy = lastCall.args[1]
          /\ ~r.is_working /\ r.check_count = 2 /\ r.success_count = 1
          /\ Instant(r.last_checked) > 2 * HoursPerDay
    /\ \E r \in cache : r.proxy # lastCall.args[1] /\ r.is_working

\* C9: a row appears only by cache_working_proxy of its proxy, and mark_proxy_dead
\* of a proxy without a row leaves the table as it was
C9_RowsOnlyByUpsert ==
    [][ /\ \A proxy \in Ids :
              (~HasRow(proxy) /\ \E r \in cache' : r.proxy = proxy)
              => (CallOf("cache_working_proxy") /\ lastCall'.args[1] = proxy)
        /\ (CallOf("mark_proxy_dead") /\ ~HasRow(lastCall'.args[1])) => cache' = cache
      ]_vars

\* mark_proxy_dead has just been called for a proxy that has no row, beside a row
C9_Witness ==
    /\ lastCall.op = "mark_proxy_dead"
    /\ ~HasRow(lastCall.args[1])
    /\ cache # {}

\* C10: a row that was marked dead and then cached again is returned by an
\* unfiltered get_cached_proxies within the freshness window, and a row that is
\* marked dead is not returned
C10_DeadThenReadmitted ==
    (lastCall.op = "get_cached_proxies" /\ lastCall.args[1] = NoArg
                                        /\ lastCall.args[2] = NoArg) =>
        /\ \A r \in cache :
              ( /\ r.is_working
                /\ r.check_count > r.success_count
                /\ clock - Instant(r.last_checked) < lastCall.args[3] )
              => r \in Returned
        /\ \A r \in Returned : r.is_working
\* C11: cleanup_old_cached_proxies(days) removes every row last checked more than
\* `days` days before the call and keeps every row last checked less than `days`
\* days before it, working or dead
C11_CleanupByAge ==
    [][CallOf("cleanup_old_cached_proxies") =>
          \A r \in cache :
              LET age == clock - Instant(r.last_checked)
                  limit == lastCall'.args[1] * HoursPerDay
              IN  /\ age > limit => r \notin cache'
                  /\ age < limit => r \in cache']_vars

\* C12: a step that makes an identity disappear from the cache is a call of
\* cleanup_old_cached_proxies
C12_OnlyCleanupRemoves ==
    [][(\E r \in cache : \A q \in cache' : q.proxy # r.proxy) =>
          lastCall'.op = "cleanup_old_cached_proxies"]_vars

\* mark_proxy_dead has just run on the older of two rows, and both rows are there
C12_Witness ==
    /\ lastCall.op = "mark_proxy_dead"
    /\ Cardinality(cache) = 2
    /\ \E r \in cache :
          /\ r.proxy = lastCall.args[1]
          /\ ~r.is_working
          /\ \E q \in cache : q.is_working /\ Instant(q.last_checked) < Instant(r.last_checked)

\* C13: when the storage layer raises under cache_working_proxy or mark_proxy_dead
\* the exception is logged, not raised to the caller, and the table is as it was
\* before the call (checked under SpecFail)
C13_FailureLeavesCache ==
    [][lastCall'.error # "" /\ clock' = clock =>
          /\ lastCall'.op \in {"cache_working_proxy", "mark_proxy_dead"}
          /\ lastCall'.error = "logged"
          /\ lastCall'.ret = <<>>
          /\ cache' = cache]_vars

\* mark_proxy_dead has just failed on a working row that had been upserted twice,
\* and the row is still working
C13_Witness ==
    /\ lastCall.op = "mark_proxy_dead"
    /\ lastCall.error = "logged"
    /\ \E r \in cache :
          r.proxy = lastCall.args[1] /\ r.is_working /\ r.check_count = 2

\* C14: when a run of perform_checking has checked a candidate that had a cache row,
\* that row's check_count is one higher after the run, whether the candidate was
\* found working or not (checked under SpecBot)
C14_EveryCheckCounted ==
    [][runpc = "loop" /\ runpc' = "returned" =>
          \A i \in DOMAIN tasks :
              HasRow(Text(proxy_list[i])) =>
                  \E q \in cache' :
                      /\ q.proxy = Text(proxy_list[i])
                      /\ q.check_count = RowOf(Text(proxy_list[i])).check_count + 1]_vars

(***************************************************************************)
(* Properties of the validators, checked under SpecCheck.                  *)
(***************************************************************************)
Consistent(r) == r.working <=> r.protocols # <<>>

\* result r is in list d[b]
InBucket(d, b, r) == b \in DOMAIN d /\ \E k \in 1..Len(d[b]) : d[b][k] = r

\* C1: every result a validator builds or stores in a bucket is working exactly
\* when its protocols list is not empty
C1_WorkingIffProtocols ==
    /\ \A i \in DOMAIN tasks : Consistent(tasks[i].result)
    /\ \A b \in DOMAIN results : \A k \in 1..Len(results[b]) : Consistent(results[b][k])
    /\ \A b \in DOMAIN returned : \A k \in 1..Len(returned[b]) : Consistent(returned[b][k])

\* one candidate was found working on two protocols, another not working at all
C1_Witness ==
    /\ \E i \in DOMAIN tasks : tasks[i].ret = "None" /\ ~tasks[i].result.working
    /\ \E i \in DOMAIN tasks :
          /\ tasks[i].ret = "result"
          /\ Len(tasks[i].result.protocols) = 2
          /\ InBucket(results, "all_working", tasks[i].result)

\* C2: every working result is in all_working, and once check_all has returned the
\* mapping holds each of them also under each of its protocols and under its
\* anonymity class
C2_InEveryBucket ==
    /\ \A i \in DOMAIN tasks :
          tasks[i].ret = "result" => InBucket(results, "all_working", tasks[i].result)
    /\ runpc = "returned" =>
          \A b \in DOMAIN returned : \A k \in 1..Len(returned[b]) :
              /\ InBucket(returned, "all_working", returned[b][k])
              /\ InBucket(returned, returned[b][k].anonymity, returned[b][k])
              /\ \A p \in 1..Len(returned[b][k].protocols) :
                    InBucket(returned, returned[b][k].protocols[p], returned[b][k])
(***************************************************************************)
(* Properties of the scraper, checked under SpecScrape.                    *)
(***************************************************************************)
\* the last position of character ch in text c, 0 when it has none
LastIndex(c, ch) ==
    IF \E i \in 1..Len(c) : c[i] = ch
    THEN CHOOSE i \in 1..Len(c) : c[i] = ch /\ \A j \in (i + 1)..Len(c) : c[j] # ch
    ELSE 0

\* the host:port of a candidate, its ip and its port
HostPortOf(c) == SubSeq(c, LastIndex(c, "/") + 1, Len(c))
IpOf(c) == SubSeq(HostPortOf(c), 1, LastIndex(HostPortOf(c), ":") - 1)
PortOf(c) == SubSeq(HostPortOf(c), LastIndex(HostPortOf(c), ":") + 1, Len(HostPortOf(c)))

\* the candidates of the sources of a run that answered 200
FetchedCandidates(run) == UNION {SourceCandidates(run.sources[i]) : i \in run.fetched}

\* C15: every candidate in scraped_proxies and in the set scrape_all returned has an
\* ip of four octets in 0..255 and a port in 1..65535
C15_CandidatesValid ==
    \A c \in scraped_proxies \cup this_run.ret :
        /\ Len(SplitDots(IpOf(c))) = 4
        /\ \A k \in 1..Len(SplitDots(IpOf(c))) :
              IntOf(SplitDots(IpOf(c))[k]) \in 0..255
        /\ IntOf(PortOf(c)) \in 1..65535

\* both texts, with their octet 999 and their port 99999, were read in one run and
\* their five good candidates returned
C15_Witness ==
    /\ this_run.done
    /\ this_run.sources = <<"list", "lines">>
    /\ this_run.fetched = {1, 2}
    /\ Cardinality(this_run.ret) = 5

\* C16: no two candidates of the set scrape_all returned have the same host:port
C16_OnePerHostPort ==
    this_run.done =>
        \A a \in this_run.ret, b \in this_run.ret :
            HostPortOf(a) = HostPortOf(b) => a = b

\* C17: from the one source serving "proxy list: 1.2.3.4:8080 http://5.6.7.8:3128
\* bad:port 999.1.1.1:80" scrape_all without limit returns exactly 1.2.3.4:8080 and
\* http://5.6.7.8:3128
C17_ScenarioA ==
    /\ this_run.done
    /\ this_run.sources = <<"list">>
    /\ this_run.fetched = {1}
    /\ this_run.max_proxies = NoLimit
    => {Text(c) : c \in this_run.ret} = {"1.2.3.4:8080", "http://5.6.7.8:3128"}

\* C18: a scrape_all call given a limit returns at most that many candidates
C18_AtMostLimit ==
    this_run.done /\ this_run.max_proxies # NoLimit =>
        Cardinality(this_run.ret) <= this_run.max_proxies

\* C19: two scrape_all calls over the same sources, with the same sources answering
\* and the same limit, return the same set
C19_SameSetTwice ==
    /\ this_run.done /\ last_run.done
    /\ this_run.sources = last_run.sources
    /\ this_run.fetched = last_run.fetched
    /\ this_run.max_proxies = last_run.max_proxies
    => this_run.ret = last_run.ret

\* C20: scrape_all returns, and what it returns holds nothing but candidates of the
\* sources that answered 200: all of them when no limit cuts the run short
C20_FailedSourcesAddNothing ==
    this_run.done =>
        /\ this_run.ret \subseteq FetchedCandidates(this_run)
        /\ ~Truthy(this_run.max_proxies) => this_run.ret = FetchedCandidates(this_run)

\* of three sources the first and the last did not answer 200, and the
\* candidates of the second were returned
C20_Witness ==
    /\ this_run.done
    /\ this_run.sources = <<"lines", "list", "lines">>
    /\ this_run.fetched = {2}
    /\ this_run.max_proxies = NoLimit
    /\ this_run.ret = ListCandidates
    /\ sources_completed = 3
(***************************************************************************)
(* Further properties of the validators, checked under SpecCheck.          *)
(***************************************************************************)
\* the status codes a probe is said to succeed with
Acceptable == {200, 204, 301, 302}

\* the members of a list
Range(s) == {s[k] : k \in 1..Len(s)}

\* the probe of a ProxyChecker task that is due next
NextProbe(i) == CHOOSE j \in tasks[i].pending : \A m \in tasks[i].pending : j <= m

\* C21: no check_all call ends with the exception of a progress callback
C21_CallbackNeverAborts == runpc # "raised"

\* C22: a result of ProxyChecker lists one protocol at most, the first that succeeded
C22_StopsAtFirstSuccess ==
    checker = "thorough" =>
        \A i \in DOMAIN tasks : Len(tasks[i].result.protocols) <= 1

\* C23: when the probe of a protocol comes back with status 200, 204, 301 or 302 the
\* protocol is in the task's list of working protocols afterwards, in ProxyChecker
\* (the result's protocols) and in FastProxyChecker (a positive time for the probe)
C23_AcceptableStatusSucceeds ==
    [][\A i \in DOMAIN tasks, resp \in Responses :
          resp.kind = "response" /\ resp.status \in Acceptable =>
              /\ ProbeThorough(i, resp) =>
                    tasks[i].probes[NextProbe(i)] \in Range(tasks'[i].result.protocols)
              /\ \A k \in tasks[i].pending :
                    ProbeFast(i, k, resp) /\ ~HasScheme(proxy_list[i]) =>
                        tasks'[i].got[k] > 0]_vars
\* the results of the run in progress: those of its tasks and those in the buckets
RunResults ==
    {tasks[i].result : i \in DOMAIN tasks}
        \cup UNION {Range(results[b]) : b \in DOMAIN results}

\* the tester's address occurs in the response's body or in the value of a header
Leaks(resp) == resp.ip_in_body \/ resp.ip_in_headers

\* C24: the anonymity of a result is elite, anonymous, transparent or unknown; a
\* result becomes transparent only on a response in whose body or header values the
\* detected, non-empty tester address occurs; when the detection failed, and in
\* FastProxyChecker, no result is transparent
C24_TransparentOnlyOnLeak ==
    /\ [](\A r \in RunResults :
            /\ r.anonymity \in {"elite", "anonymous", "transparent", "unknown"}
            /\ r.anonymity = "transparent" => checker = "thorough" /\ real_ip # "")
    /\ [][\A i \in DOMAIN tasks :
            (/\ i \in DOMAIN tasks'
             /\ tasks[i].result.anonymity # "transparent"
             /\ tasks'[i].result.anonymity = "transparent")
            => \E resp \in Responses : ProbeThorough(i, resp) /\ Leaks(resp)]_vars

\* a run of ProxyChecker that detected the tester's address returned a transparent
\* result
C24_Witness ==
    /\ checker = "thorough"
    /\ runpc = "returned"
    /\ real_ip = TesterIp
    /\ returned["transparent"] # <<>>
    /\ \A k \in 1..Len(returned["transparent"]) :
          returned["transparent"][k].anonymity = "transparent"

\* C25: the first successful probe of ProxyChecker whose response does not leak the
\* tester's address classifies the proxy as anonymous when the response has a header
\* named Via, X-Forwarded-For, Forwarded or Proxy-Connection, and as elite otherwise
C25_AnonymousByHeaderName ==
    [][\A i \in DOMAIN tasks, resp \in Responses :
          (/\ ProbeThorough(i, resp)
           /\ resp.kind = "response" /\ resp.status = 200
           /\ tasks[i].result.anonymity = "unknown"
           /\ ~(real_ip # "" /\ Leaks(resp)))
          => tasks'[i].result.anonymity =
                IF resp.proxy_header THEN "anonymous" ELSE "elite"]_vars

C27_HttpOnlyProxy ==
    [][\A i \in DOMAIN tasks :
          (checker = "thorough" /\ ~HasScheme(proxy_list[i])) =>
            /\ \A resp \in Responses :
                  (/\ ProbeThorough(i, resp)
                   /\ tasks[i].probes[NextProbe(i)] = "http"
                   /\ tasks[i].result.protocols = <<>>
                   /\ resp.kind = "response" /\ resp.status = 200)
                  => /\ tasks'[i].result.working
                     /\ tasks'[i].result.protocols = <<"http">>
                     /\ tasks'[i].result.response_time = resp.elapsed
            /\ ProbeThorough(i, Timeout) => tasks'[i].result = tasks[i].result
            /\ (Checked(i) /\ tasks[i].result.protocols = <<"http">>)
                  => /\ InBucket(results', "all_working", tasks[i].result)
                     /\ InBucket(results', "http", tasks[i].result)
                     /\ ~InBucket(results', "https", tasks[i].result)]_vars

\* ProxyChecker returned the bare 1.1.1.1:80 as working over HTTP only, with the
\* latency of the HTTP probe, in all_working and in http
C27_Witness ==
    /\ checker = "thorough"
    /\ runpc = "returned"
    /\ \E k \in 1..Len(returned["all_working"]) :
          LET r == returned["all_working"][k]
          IN  /\ r.proxy = <<"1.1.1.1", ":", "80">>
              /\ r.working
              /\ r.protocols = <<"http">>
              /\ r.response_time = 1
              /\ InBucket(returned, "http", r)
              /\ ~InBucket(returned, "https", r)
\* every bucket of d is present and empty
AllBucketsEmpty(d) == DOMAIN d = Buckets /\ \A b \in Buckets : d[b] = <<>>

\* check_all returns from a call with the empty set
EmptyCallReturns ==
    CheckAllEmptyThorough \/ (CheckAllReturn /\ proxy_list = <<>>)

\* C28: a check_all call with the empty set returns a mapping in which each of the
\* eight buckets is present and empty, in both validators and after earlier runs
C28_EmptySetEmptyBuckets ==
    [][EmptyCallReturns => AllBucketsEmpty(returned')]_vars

\* C29: every result in a bucket of the mapping a check_all call returns is the result
\* of a task of that call; a call with the empty set, which has no tasks, returns none
C29_OnlyThisCallsResults ==
    [][/\ CheckAllReturn =>
              \A b \in DOMAIN returned' : \A k \in 1..Len(returned'[b]) :
                  \E i \in DOMAIN tasks : /\ tasks[i].result = returned'[b][k]
                                          /\ tasks[i].ret = "result"
       /\ CheckAllEmptyThorough =>
              \A b \in DOMAIN returned' : returned'[b] = <<>>]_vars

\* C30: no two results in all_working of a run are results for the same host:port
C30_OneResultPerHostPort ==
    "all_working" \in DOMAIN results =>
        \A j, k \in 1..Len(results["all_working"]) :
            HostPort(results["all_working"][j].proxy)
                = HostPort(results["all_working"][k].proxy) => j = k
(***************************************************************************)
(* Concurrency and progress of the validators, checked under SpecCheck.    *)
(***************************************************************************)
\* the probes task i has issued that are not back yet: FastProxyChecker gathers the
\* probes of a candidate, ProxyChecker awaits them one at a time
ProbesOf(i) ==
    IF tasks[i].pc # "probing" THEN 0
    ELSE IF checker = "fast" THEN Cardinality(tasks[i].pending)
    ELSE IF tasks[i].pending # {} THEN 1 ELSE 0

RECURSIVE ProbesInFlight(_)
\* the probes in flight of the tasks 1..n
ProbesInFlight(n) == IF n = 0 THEN 0 ELSE ProbesOf(n) + ProbesInFlight(n - 1)

\* C31: the number of probes in flight never exceeds MAX_CONCURRENT
C31_ProbesWithinBudget == ProbesInFlight(Len(tasks)) <= MAX_CONCURRENT
\* the tasks that hold a slot of the semaphore
Holding == {i \in DOMAIN tasks : tasks[i].pc \in {"probing", "callback"}}

\* the tasks that have ended: returned a result or None, or raised
Ended == {i \in DOMAIN tasks : tasks[i].pc \in {"done", "raised"}}

\* the step after which the progress callback is called
StepOf == IF checker = "fast" THEN FastProgressStep ELSE ThoroughProgressStep

\* C34: with a progress callback, a task calls it exactly when the count of checked
\* candidates it has just raised by one is a multiple of the step; the count never
\* decreases during a run and never exceeds the total, the working count never exceeds
\* it, and at the final call after the last batch the count equals the total
C34_ProgressAtMultiples ==
    /\ [](runpc \in {"loop", "gather"} =>
            /\ checked_count <= total_count
            /\ working_count <= checked_count)
    /\ [][/\ \A i \in DOMAIN tasks :
                Checked(i) =>
                    /\ checked_count' = checked_count + 1
                    /\ tasks'[i].pc = "callback"
                          <=> (progress_callback /\ checked_count' % StepOf = 0)
          /\ (runpc \in {"loop", "gather"} /\ runpc' \in {"loop", "gather"})
                => checked_count' >= checked_count
          /\ (CheckAllReturn \/ CheckAllRaise) => checked_count = total_count]_vars

\* a task is calling the callback at the second of three candidates
C34_Witness ==
    /\ progress_callback
    /\ total_count = 3
    /\ checked_count = 2
    /\ \E i \in DOMAIN tasks : tasks[i].pc = "callback"

\* C35: in FastProxyChecker the free slots are MAX_CONCURRENT less the tasks that hold
\* one, and the tasks that ended hold none, whether they returned or raised: when every
\* task of the batch has ended all MAX_CONCURRENT slots are free
C35_SlotsReleased ==
    (checker = "fast" /\ runpc = "gather") =>
        /\ semaphore = MAX_CONCURRENT - Cardinality(Holding)
        /\ (\A i \in DOMAIN tasks : tasks[i].pc \notin {"waiting", "probing", "callback"})
              => semaphore = MAX_CONCURRENT

\* a batch of FastProxyChecker ended with a task whose progress callback raised, and
\* every slot is free
C35_Witness ==
    /\ checker = "fast"
    /\ runpc = "gather"
    /\ \E i \in DOMAIN tasks : tasks[i].pc = "raised"
    /\ \A i \in DOMAIN tasks : tasks[i].pc \notin {"waiting", "probing", "callback"}
    /\ semaphore = MAX_CONCURRENT

\* C36: a candidate is being checked only while its batch is gathered: the candidates
\* of the earlier batches have ended, those of the later batches have not started, and
\* at most BATCH_SIZE candidates are started and not ended
C36_BatchesInTurn ==
    /\ \A i \in DOMAIN tasks :
          /\ i <= batch_i => i \in Ended
          /\ i > batch_i + BATCH_SIZE => tasks[i].pc = "queued"
          /\ tasks[i].pc \in {"waiting", "probing", "callback"} => runpc = "gather"
    /\ Cardinality({i \in DOMAIN tasks : tasks[i].pc \in {"waiting", "probing", "callback"}})
          <= BATCH_SIZE

\* a candidate of the second batch is being probed after the first batch has ended
C36_Witness ==
    /\ batch_i = BATCH_SIZE
    /\ \E i \in DOMAIN tasks : i > BATCH_SIZE /\ tasks[i].pc = "probing"
    /\ \A i \in 1..BATCH_SIZE : i \in Ended

\* the number of results in the bucket all_working
WorkingResults(d) == IF "all_working" \in DOMAIN d THEN Len(d["all_working"]) ELSE 0

C38_QualifiedLikeBare ==
    [][\A i \in DOMAIN tasks, resp \in Responses :
          \A k \in tasks[i].pending :
              ProbeFast(i, k, resp) =>
                  tasks'[i].got[k] = _quick_check(HostPort(proxy_list[i]), resp)]_vars
(***************************************************************************)
(* Concurrency and progress of the extractor, checked under SpecScrape.    *)
(***************************************************************************)
\* the fetches in flight, and those that are over
Fetching == {i \in DOMAIN fetches : fetches[i].pc = "fetching"}
Fetched == {i \in DOMAIN fetches : fetches[i].pc = "done"}

\* C32: at most GatherSize fetches (10 in the source) are in flight; while a fetch is in
\* flight every source of the earlier groups has been fetched and no source beyond its
\* group of GatherSize has been started
C32_FetchesInGroups ==
    /\ Cardinality(Fetching) <= GatherSize
    /\ \A i \in Fetching \cup Fetched, j \in DOMAIN fetches :
          /\ j <= source_i => j \in Fetched
          /\ j > source_i + GatherSize => fetches[j].pc = "queued"
          /\ i <= source_i + GatherSize

\* a source of the second group is being fetched after the whole first group is over
C32_Witness ==
    /\ source_i = GatherSize
    /\ \E i \in Fetching : i > GatherSize
    /\ \A j \in 1..GatherSize : j \in Fetched

\* fetch i completes in this step; _scrape_with_progress then awaits the progress
\* callback with the new scraped_count and sources_completed and len(web_sources)
Completes(i) ==
    /\ i \in DOMAIN fetches'
    /\ fetches[i].pc = "fetching"
    /\ fetches'[i].pc = "done"

\* C33: during scrape_all sources_completed is the number of fetches that are over,
\* successful or failed; the fetch that completes reports a sources_done one more than
\* the report before it, starting from 1, and a candidate count not less than before;
\* and when the loop ends without the limit's break the last report had sources_done
\* equal to the number of sources
C33_ProgressPerFetch ==
    /\ [](scrapepc \in {"loop", "gather", "finish"} =>
              sources_completed = Cardinality(Fetched))
    /\ [][/\ \A i \in DOMAIN fetches :
                Completes(i) => /\ sources_completed' = sources_completed + 1
                                /\ scraped_count' >= scraped_count
                                /\ sources_completed' <= Len(web_sources)
          /\ sources_completed' # sources_completed =>
                \/ \E i \in DOMAIN fetches : Completes(i)
                \/ scrapepc \in {"idle", "returned"} /\ sources_completed' = 0
          /\ (scrapepc = "loop" /\ scrapepc' = "returned") =>
                sources_completed = Len(web_sources)]_vars

\* a run without limit over three sources, one of them failed, ended with three
\* sources reported
C33_Witness ==
    /\ scrapepc = "returned"
    /\ this_run.done
    /\ this_run.max_proxies = NoLimit
    /\ Len(this_run.sources) = 3
    /\ Cardinality(this_run.fetched) = 2
    /\ sources_completed = 3
(***************************************************************************)
(* The caching of perform_checking, checked under SpecBot.                 *)
(***************************************************************************)
\* the results in bucket b of d
BucketOf(d, b) == IF b \in DOMAIN d THEN Range(d[b]) ELSE {}

\* the cache row that records result r as working
Records(row, r) ==
    /\ row.proxy = Text(r.proxy)
    /\ row.is_working
    /\ row.protocols = Join(r.protocols)
    /\ row.anonymity = r.anonymity
    /\ row.response_time = r.response_time

\* C39: when perform_checking has cached a run, every result of the returned
\* all_working has a cache row with its proxy, is_working and its protocols, anonymity
\* and response_time, and the rows of every other proxy are the rows there were before
C39_CachesTheWorking ==
    [][perform_checking_caches =>
          LET working == BucketOf(returned', "all_working")
              others(c) == {row \in c : \A r \in working : row.proxy # Text(r.proxy)}
          IN  /\ \A r \in working : \E row \in cache' : Records(row, r)
              /\ others(cache') = others(cache)]_vars

\* a run found one of two candidates working: its row has been checked twice, and the
\* row of the other candidate is left from the run before
C39_Witness ==
    /\ runpc = "returned"
    /\ total_count = 2
    /\ Cardinality(BucketOf(returned, "all_working")) = 1
    /\ \A r \in BucketOf(returned, "all_working") :
          /\ \E row \in cache : Records(row, r) /\ row.check_count = 2
          /\ \E row \in cache : row.proxy # Text(r.proxy) /\ row.check_count = 1
(***************************************************************************)
(* The task queue, checked under SpecQueue.                                *)
(***************************************************************************)
\* C40: active_tasks never exceeds max_concurrent, every process_queue call returns,
\* and every coroutine on the queue when process_queue runs is executed in the end
C40_QueueDrains ==
    /\ [](active_tasks <= max_concurrent)
    /\ (queuepc = "loop") ~> (queuepc = "returned")
    /\ \A coro \in 1..MaxQueued :
          (queuepc = "loop" /\ coro \in Range(queue))
              ~> (\E e \in ended : e.coro = coro)
====
